---- MODULE Spec2Model ----
(***************************************************************************)
(* Tenant provisioning and authorization of the MSP platform:              *)
(*   - the SQL schema, policy functions and row-level policies             *)
(*     (clients, profiles, roles, user_roles, tenant_audit_log),           *)
(*   - the create-tenant-user edge function (handler),                     *)
(*   - TenantCreateForm.onSubmit / handleFinish,                           *)
(*   - UserManagement.fetchData / assignRole / removeRole /                *)
(*     updateUserProfile,                                                  *)
(*   - the password generators.                                            *)
(* Every await of the code is one atomic step; steps of different          *)
(* invocations interleave.  Every call to a collaborator (database,        *)
(* identity directory) may fail.                                           *)
(***************************************************************************)
EXTENDS Integers, FiniteSets, Sequences, TLC

\* ------------------------------------------------------------------ bounds
MaxTenants == 3
MaxUsers == 4
MaxCalls == 2
MaxCallsRoleChange == 4

\* ------------------------------------------------------------ value spaces
NULL == 0

Forms == {"f1", "f2"}
Directs == {"d1"}
Invocations == Forms \cup Directs

TenantIds == 1..MaxTenants
UserIds == 1..MaxUsers

TenantNames == {"Acme", "Beta"}
TenantTypes == {"regular", "msp_tenant"}
Emails == {"admin@t1", "new@x"}
TenantLevels == {"super_admin", "tenant_admin", "user"}
RequestLevels == {"tenant_admin", "user"}

\* passwords typed into a form or sent in a request ("" = none)
CustomPasswords == {"password"}

\* outcomes of generateSecurePassword() that the workflow is run with
GeneratedPasswords == {"Xa7!Xa7!Xa7!"}

\* the request bodies explored for tenant_level and password: a user with
\* a custom password (UserCreateForm), a tenant admin without a password
RequestFillings ==
  {[tenant_level |-> l, password |-> IF l = "user" THEN "password" ELSE ""] :
     l \in RequestLevels}

\* the form fillings explored for tenantType, generatePassword, customPassword
FormFillings ==
  {[tenantType |-> t, generatePassword |-> (t = "regular"),
    customPassword |-> IF t = "regular" THEN "" ELSE "password"] : t \in TenantTypes}
RoleNameInputs == {{}, {"Tenant Admin"}, {"Super Admin"}, {"SOC Analyst"}, {"No Such Role"}}

\* roles table: the rows inserted by the two migrations, id = position
roles ==
  << [name |-> "Super Admin",
      permissions |-> {"manage_users", "manage_roles", "view_all_clients", "manage_clients",
                       "view_logs", "manage_logs", "view_assets", "manage_assets",
                       "view_reports", "manage_reports"}],
     [name |-> "Tenant Admin",
      permissions |-> {"manage_users", "view_logs", "manage_logs", "view_assets",
                       "manage_assets", "view_reports", "manage_reports"}],
     [name |-> "SOC Analyst",
      permissions |-> {"view_logs", "manage_logs", "view_assets", "view_reports"}],
     [name |-> "SOC Viewer",
      permissions |-> {"view_logs", "view_assets", "view_reports"}],
     [name |-> "Client User",
      permissions |-> {"view_assets", "view_reports"}] >>

RoleIds == DOMAIN roles

VARIABLES
  clients,           \* public.clients: id -> row
  auth_users,        \* auth.users (Identity Directory): id -> row
  profiles,          \* public.profiles: user_id -> row
  user_roles,        \* public.user_roles: set of rows
  tenant_audit_log,  \* public.tenant_audit_log: sequence of rows
  form,              \* TenantCreateForm instances: state and position in onSubmit
  hs,                \* handler invocations: locals and position
  toast,             \* UserManagement: the toast shown last
  budget,            \* calls issued so far (submits, requests, operations)
  gen                \* a password generator call: which one and its result

vars == <<clients, auth_users, profiles, user_roles, tenant_audit_log, form, hs, toast, budget,
          gen>>

store == <<clients, auth_users, profiles, user_roles, tenant_audit_log>>

\* ------------------------------------------------------- SQL policy functions

is_super_admin(user_uuid) ==
  \E ur \in user_roles : \E r \in RoleIds :
     ur.role_id = r /\ ur.user_id = user_uuid /\ roles[r].name = "Super Admin"

\* mutant: decided by the profile's tenant_level instead of the role join
is_tenant_admin_byLevel(user_uuid, client_uuid) ==
  \E p \in DOMAIN profiles :
     /\ profiles[p].user_id = user_uuid
     /\ client_uuid # NULL
     /\ profiles[p].client_id = client_uuid
     /\ profiles[p].tenant_level = "tenant_admin"

is_tenant_admin(user_uuid, client_uuid) ==
  \E p \in DOMAIN profiles : \E ur \in user_roles : \E r \in RoleIds :
     /\ ur.user_id = profiles[p].user_id
     /\ ur.role_id = r
     /\ profiles[p].user_id = user_uuid
     /\ client_uuid # NULL
     /\ profiles[p].client_id = client_uuid
     /\ roles[r].name = "Tenant Admin"

\* mutant: the second SELECT without "AND p.client_id = client_uuid"
can_access_client_anyClient(user_uuid, client_uuid) ==
  LET superRows == {b \in {is_super_admin(user_uuid)} : b = TRUE}
      ownRows   == {p \in DOMAIN profiles : profiles[p].user_id = user_uuid}
  IN  {1 : b \in superRows} \cup {1 : p \in ownRows} # {}

\* EXISTS over the UNION of the two SELECTs; a NULL client_uuid matches no row
can_access_client(user_uuid, client_uuid) ==
  LET superRows == {b \in {is_super_admin(user_uuid)} : b = TRUE}
      ownRows   == {p \in DOMAIN profiles :
                      /\ profiles[p].user_id = user_uuid
                      /\ client_uuid # NULL
                      /\ profiles[p].client_id = client_uuid}
  IN  {1 : b \in superRows} \cup {1 : p \in ownRows} # {}

get_user_client_id(user_uuid) ==
  IF user_uuid \in DOMAIN profiles THEN profiles[user_uuid].client_id ELSE NULL

\* ------------------------------------------------- edge function: wrappers

\* mutant: an RPC error counts as a positive answer
isSuperAdmin_failOpen(userId, error) ==
  IF error THEN TRUE ELSE is_super_admin(userId)

isSuperAdmin(userId, error) ==
  IF error THEN FALSE ELSE is_super_admin(userId)

\* mutant: without "if (!clientId) return false", a missing target is allowed
canAccessClient_nullAllowed(userId, clientId, error) ==
  IF error THEN FALSE
  ELSE IF clientId = NULL THEN TRUE
  ELSE can_access_client(userId, clientId)

canAccessClient(userId, clientId, error) ==
  IF clientId = NULL THEN FALSE
  ELSE IF error THEN FALSE
  ELSE can_access_client(userId, clientId)

\* ------------------------------------------------------------ row helpers

NewTenantId == Cardinality(DOMAIN clients) + 1
NewUserId == Cardinality(DOMAIN auth_users) + 1

\* auth.users: one identity per email
EmailTaken(email) == \E u \in DOMAIN auth_users : auth_users[u].email = email

\* mutant: clients.name without the UNIQUE constraint
NameTaken_notUnique(name) == FALSE

\* clients.name is UNIQUE
NameTaken(name) == \E t \in DOMAIN clients : clients[t].name = name

\* trigger on_auth_user_created: the profile row of a new auth user
handle_new_user(id, email, tenant_level) ==
  [user_id |-> id, email |-> email, client_id |-> NULL, tenant_level |-> tenant_level]

\* ------------------------------------------------------ password generators

\* const chars = 'ABCDEFGHIJKLMNOPQRSTUVWXYZabcdefghijklmnopqrstuvwxyz0123456789!@#$%^&*'
chars ==
  << "A", "B", "C", "D", "E", "F", "G", "H", "I", "J", "K", "L", "M",
     "N", "O", "P", "Q", "R", "S", "T", "U", "V", "W", "X", "Y", "Z",
     "a", "b", "c", "d", "e", "f", "g", "h", "i", "j", "k", "l", "m",
     "n", "o", "p", "q", "r", "s", "t", "u", "v", "w", "x", "y", "z",
     "0", "1", "2", "3", "4", "5", "6", "7", "8", "9",
     "!", "@", "#", "$", "%", "^", "&", "*" >>

\* for (let i = 0; i < 12; i++)
PasswordLength == 12

\* .slice(0, 16)
FallbackSlice == 16

\* outcomes of Math.floor(Math.random() * chars.length) that are explored
RandomIndexes == {26, 52}

\* outcomes of one random hex digit of crypto.randomUUID() that are explored
HexDraws == {"0", "a"}

\* the loop of generateSecurePassword: password += chars.charAt(random[i])
RECURSIVE generateLoop(_, _, _)
generateLoop(password, i, random) ==
  IF i < PasswordLength
  THEN generateLoop(Append(password, chars[random[i + 1] + 1]), i + 1, random)
  ELSE password

generateSecurePassword(random) == generateLoop(<< >>, 0, random)

\* crypto.randomUUID(): a version 4 UUID, xxxxxxxx-xxxx-4xxx-yxxx-xxxxxxxxxxxx;
\* hex gives the first 15 random digits, the rest is one fixed outcome
randomUUID(hex) ==
  SubSeq(hex, 1, 8) \o << "-" >> \o SubSeq(hex, 9, 12) \o << "-", "4" >> \o SubSeq(hex, 13, 15)
    \o << "-", "8", "0", "0", "0", "-" >> \o [k \in 1..12 |-> "0"]

\* crypto.randomUUID().replace(/-/g, '').slice(0, 16) + '!'
fallbackPassword(uuid) ==
  LET dashless == SelectSeq(uuid, LAMBDA c : c # "-")
  IN  SubSeq(dashless, 1, FallbackSlice) \o << "!" >>

NoGen == [by |-> "none", password |-> << >>]

\* ---------------------------------------------------------------- initial

HIdle ==
  [pc |-> "idle", caller |-> NULL, email |-> "", password |-> "", client_id |-> NULL,
   tenant_level |-> "user", role_names |-> {}, callerIsSuper |-> FALSE,
   newUserId |-> NULL, assignments |-> {}, status |-> 0, ret |-> 0, user_id |-> NULL]

NoData == [tenantName |-> "", tenantType |-> "regular", adminEmail |-> "",
           generatePassword |-> TRUE, customPassword |-> ""]
NoCredentials == [tenantId |-> NULL, tenantName |-> "", adminEmail |-> "", adminPassword |-> "",
                  adminUserId |-> NULL]
NoToast == [title |-> "", description |-> ""]

FIdle ==
  [pc |-> "form", step |-> "form", loading |-> FALSE, user |-> NULL, data |-> NoData,
   tenantId |-> NULL, adminPassword |-> "", fnUserId |-> NULL,
   createdCredentials |-> NoCredentials,
   toast |-> NoToast, resume |-> FALSE]

\* A platform with its super admin (user 1) and one tenant provisioned by the
\* workflow: tenant 1 "T1" with its tenant admin (user 2).
Init ==
  /\ clients = (1 :> [id |-> 1, name |-> "T1", tenant_type |-> "regular", created_by |-> 1,
                      admin_user_id |-> 2, status |-> "active"])
  /\ auth_users = (1 :> [id |-> 1, email |-> "root@msp"]) @@ (2 :> [id |-> 2, email |-> "admin@t1"])
  /\ profiles = (1 :> [user_id |-> 1, email |-> "root@msp", client_id |-> NULL,
                       tenant_level |-> "super_admin"])
                @@ (2 :> [user_id |-> 2, email |-> "admin@t1", client_id |-> 1,
                          tenant_level |-> "tenant_admin"])
  /\ user_roles = {[user_id |-> 1, role_id |-> 1], [user_id |-> 2, role_id |-> 2]}
  /\ tenant_audit_log = << [tenant_id |-> 1, performed_by |-> 1, action |-> "tenant_created",
                            details |-> [tenant_name |-> "T1", admin_email |-> "admin@t1"]] >>
  /\ form = [f \in Forms |-> FIdle]
  /\ hs = [i \in Invocations |-> HIdle]
  /\ toast = NoToast
  /\ budget = 0
  /\ gen = NoGen

\* ------------------------------------------- edge function: handler steps

\* return jsonResponse(...) at source line `line`
Return(i, status, line, uid) ==
  hs' = [hs EXCEPT ![i].pc = "returned", ![i].status = status, ![i].ret = line,
                   ![i].user_id = uid]

\* request arrival up to getCaller: JSON body, email, caller identity
Receive(i, caller, badJson, payload) ==
  LET h == [HIdle EXCEPT !.caller = caller, !.email = payload.email,
                         !.password = payload.password,
                         !.client_id = payload.client_id,
                         !.tenant_level = payload.tenant_level,
                         !.role_names = payload.role_names]
  IN  hs' = [hs EXCEPT ![i] =
               IF badJson THEN [HIdle EXCEPT !.pc = "returned", !.status = 400, !.ret = 68]
               ELSE IF payload.email = "" THEN [h EXCEPT !.pc = "returned", !.status = 400, !.ret = 72]
               ELSE IF caller = NULL THEN [h EXCEPT !.pc = "returned", !.status = 401, !.ret = 76]
               ELSE [h EXCEPT !.pc = "isSuperAdmin"]]

\* mutant: the answer comes from a cache filled at start-up, when user 1
\* held "Super Admin", and the database is only asked on a miss
h_isSuperAdmin_cached(i) ==
  /\ hs[i].pc = "isSuperAdmin"
  /\ \E error \in BOOLEAN :
       LET callerIsSuper == hs[i].caller = 1 \/ isSuperAdmin(hs[i].caller, error)
       IN  hs' = [hs EXCEPT ![i].callerIsSuper = callerIsSuper,
                            ![i].pc = IF callerIsSuper THEN "createUser" ELSE "canAccessClient"]
  /\ UNCHANGED <<store, form, toast, budget, gen>>

h_isSuperAdmin(i) ==
  /\ hs[i].pc = "isSuperAdmin"
  /\ \E error \in BOOLEAN :
       LET callerIsSuper == isSuperAdmin(hs[i].caller, error)
       IN  hs' = [hs EXCEPT ![i].callerIsSuper = callerIsSuper,
                            ![i].pc = IF callerIsSuper THEN "createUser" ELSE "canAccessClient"]
  /\ UNCHANGED <<store, form, toast, budget, gen>>

\* mutant: the identity is created before the caller is authorized
h_canAccessClient_createsFirst(i) ==
  /\ hs[i].pc = "canAccessClient"
  /\ \E error \in BOOLEAN :
       LET allowed == canAccessClient(hs[i].caller, hs[i].client_id, error)
       IN  IF allowed THEN hs' = [hs EXCEPT ![i].pc = "createUser"] /\ UNCHANGED store
           ELSE /\ Return(i, 403, 82, NULL)
                /\ auth_users' = auth_users @@ (MaxUsers :> [id |-> MaxUsers, email |-> hs[i].email])
                /\ profiles' = profiles @@
                     (MaxUsers :> handle_new_user(MaxUsers, hs[i].email, hs[i].tenant_level))
                /\ UNCHANGED <<clients, user_roles, tenant_audit_log>>
  /\ UNCHANGED <<form, toast, budget, gen>>

h_canAccessClient(i) ==
  /\ hs[i].pc = "canAccessClient"
  /\ \E error \in BOOLEAN :
       LET allowed == canAccessClient(hs[i].caller, hs[i].client_id, error)
       IN  IF allowed THEN hs' = [hs EXCEPT ![i].pc = "createUser"]
           ELSE Return(i, 403, 82, NULL)
  /\ UNCHANGED <<store, form, toast, budget, gen>>

\* mutant: a failed identity creation leaves the profile row of the trigger
h_createUser_profileOnFailure(i) ==
  /\ hs[i].pc = "createUser"
  /\ \/ /\ ~EmailTaken(hs[i].email)
        /\ NewUserId <= MaxUsers
        /\ LET id == NewUserId IN
             /\ auth_users' = auth_users @@ (id :> [id |-> id, email |-> hs[i].email])
             /\ profiles' = profiles @@ (id :> handle_new_user(id, hs[i].email, hs[i].tenant_level))
             /\ hs' = [hs EXCEPT ![i].newUserId = id, ![i].pc = "profile"]
        /\ UNCHANGED <<clients, user_roles, tenant_audit_log>>
     \/ /\ Return(i, 400, 97, NULL)
        /\ profiles' = profiles @@
             (MaxUsers :> handle_new_user(MaxUsers, hs[i].email, hs[i].tenant_level))
        /\ UNCHANGED <<clients, auth_users, user_roles, tenant_audit_log>>
  /\ UNCHANGED <<form, toast, budget, gen>>

\* auth.admin.createUser({email, password: password || <fallback>, ...}); the
\* directory keeps the credential to itself; the insert into auth.users fires
\* handle_new_user
h_createUser(i) ==
  /\ hs[i].pc = "createUser"
  /\ \/ /\ ~EmailTaken(hs[i].email)
        /\ NewUserId <= MaxUsers
        /\ LET id == NewUserId IN
             /\ auth_users' = auth_users @@ (id :> [id |-> id, email |-> hs[i].email])
             /\ profiles' = profiles @@ (id :> handle_new_user(id, hs[i].email, hs[i].tenant_level))
             /\ hs' = [hs EXCEPT ![i].newUserId = id, ![i].pc = "profile"]
        /\ UNCHANGED <<clients, user_roles, tenant_audit_log>>
     \/ /\ Return(i, 400, 97, NULL)
        /\ UNCHANGED store
  /\ UNCHANGED <<form, toast, budget, gen>>

\* mutant: the update without .eq('user_id', newUserId) writes every row
h_profile_noFilter(i) ==
  /\ hs[i].pc = "profile"
  /\ \/ /\ hs[i].client_id = NULL \/ hs[i].client_id \in DOMAIN clients
        /\ profiles' = [p \in DOMAIN profiles |->
                          [profiles[p] EXCEPT !.client_id = hs[i].client_id,
                                              !.tenant_level = hs[i].tenant_level]]
        /\ IF hs[i].role_names # {}
           THEN hs' = [hs EXCEPT ![i].pc = "rolesSelect"]
           ELSE Return(i, 200, 131, hs[i].newUserId)
     \/ /\ Return(i, 400, 113, NULL)
        /\ UNCHANGED profiles
  /\ UNCHANGED <<clients, auth_users, user_roles, tenant_audit_log, form, toast, budget, gen>>

\* profiles.update(...).eq('user_id', newUserId) with the service role
h_profile(i) ==
  /\ hs[i].pc = "profile"
  /\ \/ /\ hs[i].client_id = NULL \/ hs[i].client_id \in DOMAIN clients
        /\ profiles' = [profiles EXCEPT ![hs[i].newUserId] =
                          [user_id |-> hs[i].newUserId, email |-> hs[i].email,
                           client_id |-> hs[i].client_id,
                           tenant_level |-> hs[i].tenant_level]]
        /\ IF hs[i].role_names # {}
           THEN hs' = [hs EXCEPT ![i].pc = "rolesSelect"]
           ELSE Return(i, 200, 131, hs[i].newUserId)
     \/ /\ Return(i, 400, 113, NULL)
        /\ UNCHANGED profiles
  /\ UNCHANGED <<clients, auth_users, user_roles, tenant_audit_log, form, toast, budget, gen>>

\* mutant: the handler answers 200 before the roles are assigned
h_rolesSelect_returnsEarly(i) ==
  /\ hs[i].pc = "rolesSelect"
  /\ Return(i, 200, 131, hs[i].newUserId)
  /\ UNCHANGED <<store, form, toast, budget, gen>>

\* roles.select('id,name').in('name', role_names)
h_rolesSelect(i) ==
  /\ hs[i].pc = "rolesSelect"
  /\ \/ LET found == {r \in RoleIds : roles[r].name \in hs[i].role_names}
            assignments == {[user_id |-> hs[i].newUserId, role_id |-> r] : r \in found}
        IN  IF assignments # {}
            THEN hs' = [hs EXCEPT ![i].assignments = assignments, ![i].pc = "assign"]
            ELSE Return(i, 200, 131, hs[i].newUserId)
     \/ Return(i, 400, 122, NULL)
  /\ UNCHANGED <<store, form, toast, budget, gen>>

\* user_roles.insert(assignments)
h_assign(i) ==
  /\ hs[i].pc = "assign"
  /\ \/ /\ hs[i].assignments \cap user_roles = {}
        /\ user_roles' = user_roles \cup hs[i].assignments
        /\ Return(i, 200, 131, hs[i].newUserId)
     \/ /\ Return(i, 400, 127, NULL)
        /\ UNCHANGED user_roles
  /\ UNCHANGED <<clients, auth_users, profiles, tenant_audit_log, form, toast, budget, gen>>

handler(i) ==
  \/ h_isSuperAdmin(i)
  \/ h_canAccessClient(i)
  \/ h_createUser(i)
  \/ h_profile(i)
  \/ h_rolesSelect(i)
  \/ h_assign(i)

\* --------------------------------------------- row-level security policies

\* mutant: the insert policy admits every authenticated user
clients_insert_authenticated(uid) == uid \in DOMAIN auth_users

\* clients FOR INSERT: "clients_insert", "Super admins can create clients"
clients_insert(uid) == is_super_admin(uid)

\* clients FOR UPDATE: "clients_update", "Super admins can update clients"
clients_update(uid) == is_super_admin(uid)

\* tenant_audit_log FOR INSERT: "Super admins can insert audit logs"
audit_insert(uid) == is_super_admin(uid)

\* user_roles FOR ALL: "user_roles_all_super" (the only policy for writes)
user_roles_all_super(uid) == is_super_admin(uid)

\* profiles, permissive policies that apply to UPDATE, OR-ed:
\* "profiles_all_super" / "Super admins can manage all profiles",
\* "profiles_update_own", "Tenant admins can manage profiles in their client"
profiles_update(uid, row) ==
  \/ is_super_admin(uid)
  \/ uid = row.user_id
  \/ /\ is_tenant_admin(uid, row.client_id)
     /\ row.client_id # NULL
     /\ row.client_id = get_user_client_id(uid)

\* mutant: a SELECT policy for every authenticated user
audit_select_authenticated(uid, row) == uid \in DOMAIN auth_users

\* tenant_audit_log FOR SELECT: "Super admins can view all audit logs",
\* "Tenant admins can view their tenant audit logs"
audit_select(uid, row) ==
  \/ is_super_admin(uid)
  \/ can_access_client(uid, row.tenant_id)

\* clients FOR DELETE: "clients_delete", "Super admins can delete clients"
clients_delete(uid) == is_super_admin(uid)

\* profiles, permissive policies that apply to SELECT, OR-ed:
\* "profiles_all_super" / "Super admins can manage all profiles",
\* "profiles_select_own", "Tenant admins can manage profiles in their client",
\* "Users can view profiles in their client"; a NULL client_id equals nothing
\* mutant: a SELECT policy USING (true)
profiles_select_allRows(uid, row) == TRUE

profiles_select(uid, row) ==
  \/ is_super_admin(uid)
  \/ uid = row.user_id
  \/ /\ row.client_id # NULL
     /\ row.client_id = get_user_client_id(uid)
     /\ is_tenant_admin(uid, row.client_id)
  \/ /\ row.client_id # NULL
     /\ row.client_id = get_user_client_id(uid)

\* user_roles FOR SELECT: "user_roles_all_super", "user_roles_select_own"
user_roles_select(uid, row) ==
  \/ is_super_admin(uid)
  \/ uid = row.user_id

\* clients FOR SELECT: "clients_select_super_admin" / "Super admins can view
\* all clients", "clients_select_own", "Tenant admins can view their client"
clients_select(uid, row) ==
  \/ is_super_admin(uid)
  \/ \E p \in DOMAIN profiles :
       profiles[p].user_id = uid /\ profiles[p].client_id = row.id
  \/ can_access_client(uid, row.id)

\* ------------------------------------------- TenantCreateForm.onSubmit steps

\* mutant: without the finally block, an error leaves the form loading
Catch_keepsLoading(f, message) ==
  form' = [form EXCEPT ![f].pc = "form", ![f].adminPassword = "",
                       ![f].toast = [title |-> "Error", description |-> message]]

\* catch (error) { toast(...) } finally { setLoading(false) }
Catch(f, message) ==
  form' = [form EXCEPT ![f].pc = "form", ![f].loading = FALSE, ![f].adminPassword = "",
                       ![f].toast = [title |-> "Error", description |-> message]]

onSubmitWithin(calls, f) ==
  /\ form[f].pc = "form"
  /\ form[f].step = "form"
  /\ budget < calls
  /\ \E user \in DOMAIN auth_users \cup {NULL}, name \in TenantNames,
        filling \in FormFillings, email \in Emails :
       LET data == [tenantName |-> name, tenantType |-> filling.tenantType,
                    adminEmail |-> email, generatePassword |-> filling.generatePassword,
                    customPassword |-> filling.customPassword]
           run == [FIdle EXCEPT !.user = user, !.data = data,
                                !.resume = /\ user # NULL
                                           /\ is_super_admin(user)
                                           /\ \E i \in Invocations :
                                                /\ hs[i].pc = "returned"
                                                /\ hs[i].ret = 113
                                                /\ hs[i].email = email
                                                /\ hs[i].tenant_level = "tenant_admin"]
       IN  form' = [form EXCEPT ![f] =
                      IF user = NULL
                      THEN [run EXCEPT !.toast = [title |-> "Error",
                              description |-> "You must be logged in to create tenants"]]
                      ELSE [run EXCEPT !.loading = TRUE, !.pc = "insert"]]
  /\ hs' = [hs EXCEPT ![f] = HIdle]
  /\ budget' = budget + 1
  /\ UNCHANGED <<store, toast, gen>>

\* a submit within the budget of calls
onSubmit(f) == onSubmitWithin(MaxCalls, f)

\* Step 1: clients.insert({...}).select().single()
o_insert(f) ==
  /\ form[f].pc = "insert"
  /\ IF ~clients_insert(form[f].user)
     THEN Catch(f, "new row violates row-level security policy") /\ UNCHANGED clients
     ELSE IF NameTaken(form[f].data.tenantName)
     THEN Catch(f, "duplicate key value violates unique constraint") /\ UNCHANGED clients
     ELSE \/ /\ NewTenantId <= MaxTenants
             /\ LET id == NewTenantId IN
                  /\ clients' = clients @@
                       (id :> [id |-> id, name |-> form[f].data.tenantName,
                               tenant_type |-> form[f].data.tenantType,
                               created_by |-> form[f].user,
                               admin_user_id |-> NULL, status |-> "active"])
                  /\ form' = [form EXCEPT ![f].tenantId = id, ![f].pc = "invoke"]
          \/ Catch(f, "Failed to create tenant") /\ UNCHANGED clients
  /\ UNCHANGED <<auth_users, profiles, user_roles, tenant_audit_log, hs, toast, budget, gen>>

\* Steps 2-3: adminPassword, then
\* supabase.functions.invoke('create-tenant-user', {body})
o_invoke(f) ==
  /\ form[f].pc = "invoke"
  /\ \E generated \in GeneratedPasswords :
       LET adminPassword == IF form[f].data.generatePassword THEN generated
                            ELSE IF form[f].data.customPassword # ""
                            THEN form[f].data.customPassword
                            ELSE generated
       IN  /\ Receive(f, form[f].user, FALSE,
                      [email |-> form[f].data.adminEmail, password |-> adminPassword,
                       client_id |-> form[f].tenantId,
                       tenant_level |-> "tenant_admin", role_names |-> {"Tenant Admin"}])
           /\ form' = [form EXCEPT ![f].pc = "await", ![f].adminPassword = adminPassword]
  /\ UNCHANGED <<store, toast, budget, gen>>

\* the invoke resolves: fnError for a non-2xx response
o_result(f) ==
  /\ form[f].pc = "await"
  /\ hs[f].pc = "returned"
  /\ IF hs[f].status # 200
     THEN Catch(f, "Edge Function returned a non-2xx status code")
     ELSE form' = [form EXCEPT ![f].fnUserId = hs[f].user_id, ![f].pc = "update"]
  /\ UNCHANGED <<store, hs, toast, budget, gen>>

\* Step 4: clients.update({admin_user_id}).eq('id', tenantData.id)
\* a row the UPDATE policy hides is not updated and no error is raised
o_update(f) ==
  /\ form[f].pc = "update"
  /\ \/ /\ clients' = IF clients_update(form[f].user)
                      THEN [clients EXCEPT ![form[f].tenantId].admin_user_id = form[f].fnUserId]
                      ELSE clients
        /\ form' = [form EXCEPT ![f].pc = "audit"]
     \/ Catch(f, "Failed to create tenant") /\ UNCHANGED clients
  /\ UNCHANGED <<auth_users, profiles, user_roles, tenant_audit_log, hs, toast, budget, gen>>

\* Step 7: tenant_audit_log.insert(...) (its error is not read), then the
\* credentials are shown
o_audit(f) ==
  /\ form[f].pc = "audit"
  /\ \/ /\ audit_insert(form[f].user)
        /\ tenant_audit_log' = Append(tenant_audit_log,
             [tenant_id |-> form[f].tenantId, performed_by |-> form[f].user,
              action |-> "tenant_created",
              details |-> [tenant_name |-> form[f].data.tenantName,
                           admin_email |-> form[f].data.adminEmail]])
     \/ UNCHANGED tenant_audit_log
  /\ form' = [form EXCEPT ![f].createdCredentials =
                            [tenantId |-> form[f].tenantId,
                             tenantName |-> form[f].data.tenantName,
                             adminEmail |-> form[f].data.adminEmail,
                             adminPassword |-> form[f].adminPassword,
                             adminUserId |-> form[f].fnUserId],
                          ![f].step = "credentials",
                          ![f].pc = "credentials",
                          ![f].adminPassword = "",
                          ![f].loading = FALSE,
                          ![f].toast = [title |-> "Success", description |->
                             "Tenant and admin account created successfully"]]
  /\ UNCHANGED <<clients, auth_users, profiles, user_roles, hs, toast, budget, gen>>

\* mutant: the credentials are not cleared on finish
handleFinish_keepsCredentials(f) ==
  /\ form[f].pc = "credentials"
  /\ form' = [form EXCEPT ![f].step = "form", ![f].pc = "form"]
  /\ UNCHANGED <<store, hs, toast, budget, gen>>

handleFinish(f) ==
  /\ form[f].pc = "credentials"
  /\ form' = [form EXCEPT ![f].createdCredentials = NoCredentials,
                          ![f].step = "form", ![f].pc = "form"]
  /\ UNCHANGED <<store, hs, toast, budget, gen>>

\* ------------------------------------ requests sent to the edge function
\* directly (UserCreateForm.handleSubmit or any HTTP client)

DirectRequest(d) ==
  /\ hs[d].pc = "idle"
  /\ budget < MaxCalls
  /\ \E caller \in DOMAIN auth_users \cup {NULL}, badJson \in BOOLEAN,
        email \in Emails \cup {""}, client_id \in TenantIds \cup {NULL},
        filling \in RequestFillings, role_names \in RoleNameInputs :
       /\ badJson => /\ email = "" /\ client_id = NULL
                      /\ filling.tenant_level = "user" /\ role_names = {}
       /\ Receive(d, caller, badJson,
                  [email |-> email, password |-> filling.password, client_id |-> client_id,
                   tenant_level |-> filling.tenant_level, role_names |-> role_names])
  /\ budget' = budget + 1
  /\ UNCHANGED <<store, form, toast, gen>>

DirectResponse(d) ==
  /\ hs[d].pc = "returned"
  /\ hs' = [hs EXCEPT ![d] = HIdle]
  /\ UNCHANGED <<store, form, toast, budget, gen>>

\* ----------------------------------------------- UserManagement operations

\* toast({title: "Success", ...}) / catch: toast({title: "Error", description:
\* error.message || fallback})
Toast(title, description) == [title |-> title, description |-> description]

\* user_roles.insert({user_id, role_id}): the WITH CHECK of the only write
\* policy, then UNIQUE(user_id, role_id); an error is thrown and shown
assignRoleWithin(calls, caller, userId, roleId) ==
  /\ budget < calls
  /\ budget' = budget + 1
  /\ LET row == [user_id |-> userId, role_id |-> roleId] IN
       \/ IF ~user_roles_all_super(caller)
          THEN /\ toast' = Toast("Error", "new row violates row-level security policy")
               /\ UNCHANGED user_roles
          ELSE IF row \in user_roles
          THEN /\ toast' = Toast("Error", "duplicate key value violates unique constraint")
               /\ UNCHANGED user_roles
          ELSE /\ user_roles' = user_roles \cup {row}
               /\ toast' = Toast("Success", "Role assigned successfully")
       \/ /\ toast' = Toast("Error", "Failed to assign role")
          /\ UNCHANGED user_roles
  /\ UNCHANGED <<clients, auth_users, profiles, tenant_audit_log, form, hs, gen>>

\* an assignment within the budget of calls
assignRole(caller, userId, roleId) == assignRoleWithin(MaxCalls, caller, userId, roleId)

\* user_roles.delete().match({user_id, role_id}): rows the policy hides are
\* not deleted and no error is raised
removeRoleWithin(calls, caller, userId, roleId) ==
  /\ budget < calls
  /\ budget' = budget + 1
  /\ \/ /\ user_roles' = IF user_roles_all_super(caller)
                         THEN user_roles \ {[user_id |-> userId, role_id |-> roleId]}
                         ELSE user_roles
        /\ toast' = Toast("Success", "Role removed successfully")
     \/ /\ toast' = Toast("Error", "Failed to remove role")
        /\ UNCHANGED user_roles
  /\ UNCHANGED <<clients, auth_users, profiles, tenant_audit_log, form, hs, gen>>

\* a removal within the budget of calls
removeRole(caller, userId, roleId) == removeRoleWithin(MaxCalls, caller, userId, roleId)

\* UserForm.handleSubmit -> updateUserProfile(userId, {display_name, client_id}):
\* a row the USING clauses hide is not updated and no error is raised; a new
\* row that fails every WITH CHECK, or names no client, is an error
updateUserProfile(caller, userId, client_id) ==
  /\ budget < MaxCalls
  /\ budget' = budget + 1
  /\ LET new == [profiles[userId] EXCEPT !.client_id = client_id] IN
       \/ IF ~profiles_update(caller, profiles[userId])
          THEN /\ toast' = Toast("Success", "User updated successfully")
               /\ UNCHANGED profiles
          ELSE IF ~profiles_update(caller, new)
          THEN /\ toast' = Toast("Error", "new row violates row-level security policy")
               /\ UNCHANGED profiles
          ELSE IF ~(client_id = NULL \/ client_id \in DOMAIN clients)
          THEN /\ toast' = Toast("Error", "violates foreign key constraint")
               /\ UNCHANGED profiles
          ELSE /\ profiles' = [profiles EXCEPT ![userId] = new]
               /\ toast' = Toast("Success", "User updated successfully")
       \/ /\ toast' = Toast("Error", "Failed to update user")
          /\ UNCHANGED profiles
  /\ UNCHANGED <<clients, auth_users, user_roles, tenant_audit_log, form, hs, gen>>

\* what useRBAC() reports to the component: isSuperAdmin(), isTenantAdmin(),
\* getUserClientId(); client-side state, any value
RBACStates == [isSuperAdmin : BOOLEAN, isTenantAdmin : BOOLEAN, userClientId : {1}]

\* fetchData for the session of `uid`: the rows the three queries return
\* under the SELECT policies, users joined with their roles as in setUsers
fetchData(uid, rbac) ==
  LET usersResponse ==
        {p \in DOMAIN profiles :
           /\ (rbac.isTenantAdmin /\ ~rbac.isSuperAdmin /\ rbac.userClientId # NULL)
                => profiles[p].client_id = rbac.userClientId
           /\ profiles_select(uid, profiles[p])}
      clientsResponse ==
        {c \in DOMAIN clients :
           /\ ~rbac.isSuperAdmin => c = rbac.userClientId
           /\ clients_select(uid, clients[c])}
      userRolesData == {ur \in user_roles : user_roles_select(uid, ur)}
  IN  [users |-> {[profile |-> profiles[p],
                   roles |-> {ur.role_id : ur \in {x \in userRolesData : x.user_id = p}}] :
                    p \in usersResponse},
       userRolesData |-> userRolesData,
       clients |-> {clients[c] : c \in clientsResponse}]

\* UserCreateForm: the roles offered as check boxes; `isSuperAdmin` is the
\* prop of the component
availableRoles(isSuperAdmin_) ==
  {r \in RoleIds :
     IF isSuperAdmin_ THEN TRUE
     ELSE roles[r].name \notin {"Super Admin", "Tenant Admin"}}

\* UserForm, "Select role to assign": the catalog without the roles the
\* edited user is shown with
UserFormRoleOptions(userRoles) ==
  {r \in RoleIds : ~(\E userRole \in userRoles : userRole = r)}

\* ------------------------------------------------------------ specification

Next ==
  \/ \E f \in Forms : onSubmit(f)
  \/ \E f \in Forms : o_insert(f)
  \/ \E f \in Forms : o_invoke(f)
  \/ \E f \in Forms : o_result(f)
  \/ \E f \in Forms : o_update(f)
  \/ \E f \in Forms : o_audit(f)
  \/ \E f \in Forms : handleFinish(f)
  \/ \E i \in Invocations : handler(i)
  \/ \E d \in Directs : DirectRequest(d)
  \/ \E d \in Directs : DirectResponse(d)
  \/ \E caller \in DOMAIN auth_users, userId \in DOMAIN auth_users, roleId \in RoleIds :
       assignRole(caller, userId, roleId)
  \/ \E caller \in DOMAIN auth_users, userId \in DOMAIN auth_users, roleId \in RoleIds :
       removeRole(caller, userId, roleId)
  \/ \E caller \in DOMAIN auth_users, userId \in DOMAIN auth_users,
        client_id \in TenantIds \cup {NULL} :
       updateUserProfile(caller, userId, client_id)

Spec == Init /\ [][Next]_vars

\* ------------------------------------------------- deletion of a tenant

\* DELETE FROM clients WHERE id = ...: a row the DELETE policy hides is not
\* deleted; profiles.client_id REFERENCES clients(id) refuses the deletion
\* while a profile names the tenant; tenant_audit_log.tenant_id REFERENCES
\* clients(id) ON DELETE CASCADE deletes the tenant's audit records with it
deleteClient(caller, id) ==
  /\ budget < MaxCalls
  /\ budget' = budget + 1
  /\ IF /\ clients_delete(caller)
        /\ \A p \in DOMAIN profiles : profiles[p].client_id # id
     THEN /\ clients' = [t \in DOMAIN clients \ {id} |-> clients[t]]
          /\ tenant_audit_log' = SelectSeq(tenant_audit_log, LAMBDA r : r.tenant_id # id)
     ELSE UNCHANGED <<clients, tenant_audit_log>>
  /\ UNCHANGED <<auth_users, profiles, user_roles, form, hs, toast, gen>>

\* the operations on users and roles, with the deletion of tenants
NextDelete ==
  \/ \E i \in Invocations : handler(i)
  \/ \E d \in Directs : DirectRequest(d)
  \/ \E d \in Directs : DirectResponse(d)
  \/ \E caller \in DOMAIN auth_users, userId \in DOMAIN auth_users, roleId \in RoleIds :
       assignRole(caller, userId, roleId)
  \/ \E caller \in DOMAIN auth_users, userId \in DOMAIN auth_users, roleId \in RoleIds :
       removeRole(caller, userId, roleId)
  \/ \E caller \in DOMAIN auth_users, userId \in DOMAIN auth_users,
        client_id \in TenantIds \cup {NULL} :
       updateUserProfile(caller, userId, client_id)
  \/ \E caller \in DOMAIN auth_users, id \in DOMAIN clients : deleteClient(caller, id)

SpecDelete == Init /\ [][NextDelete]_vars

\* ------------------------- a run of the workflow while roles are changed

\* the workflow with assignments and removals of the "Super Admin" role
\* issued from UserManagement while a run is under way; one form is used
RoleChangeForms == {"f1"}

NextRoleChange ==
  \/ \E f \in RoleChangeForms : onSubmitWithin(MaxCallsRoleChange, f)
  \/ \E f \in RoleChangeForms : o_insert(f)
  \/ \E f \in RoleChangeForms : o_invoke(f)
  \/ \E f \in RoleChangeForms : o_result(f)
  \/ \E f \in RoleChangeForms : o_update(f)
  \/ \E f \in RoleChangeForms : o_audit(f)
  \/ \E f \in RoleChangeForms : handleFinish(f)
  \/ \E f \in RoleChangeForms : handler(f)
  \/ \E caller \in DOMAIN auth_users, userId \in DOMAIN auth_users,
        roleId \in {r \in RoleIds : roles[r].name = "Super Admin"} :
       assignRoleWithin(MaxCallsRoleChange, caller, userId, roleId)
  \/ \E caller \in DOMAIN auth_users, userId \in DOMAIN auth_users,
        roleId \in {r \in RoleIds : roles[r].name = "Super Admin"} :
       removeRoleWithin(MaxCallsRoleChange, caller, userId, roleId)

SpecRoleChange == Init /\ [][NextRoleChange]_vars

\* ------------------------------------------- the workflow under fairness

\* the steps of the run of form f: each await of onSubmit resolves, and the
\* edge function it invoked takes its steps
run(f) ==
  \/ o_insert(f)
  \/ o_invoke(f)
  \/ o_result(f)
  \/ o_update(f)
  \/ o_audit(f)
  \/ handler(f)

NextLive ==
  \/ \E f \in Forms : onSubmit(f)
  \/ \E f \in Forms : run(f)
  \/ \E f \in Forms : handleFinish(f)

\* every collaborator call eventually returns, with success or failure
SpecLive == Init /\ [][NextLive]_vars /\ \A f \in Forms : WF_vars(run(f))

\* ------------------------------------------- the generators on their own

\* a call of generateSecurePassword() (TenantCreateForm, UserCreateForm)
GeneratePassword ==
  /\ gen.by = "none"
  /\ \E random \in [1..PasswordLength -> RandomIndexes] :
       gen' = [by |-> "generateSecurePassword", password |-> generateSecurePassword(random)]
  /\ UNCHANGED <<store, form, hs, toast, budget>>

\* the handler's default when the request carries no password
FallbackPassword ==
  /\ gen.by = "none"
  /\ \E hex \in [1..15 -> HexDraws] :
       gen' = [by |-> "fallback", password |-> fallbackPassword(randomUUID(hex))]
  /\ UNCHANGED <<store, form, hs, toast, budget>>

NextPassword == GeneratePassword \/ FallbackPassword

SpecPassword == Init /\ [][NextPassword]_vars

\* ------------------------------------------------------------------ claims

HoldsRole(userId, name) ==
  \E r \in RoleIds : roles[r].name = name /\ [user_id |-> userId, role_id |-> r] \in user_roles

PrivilegedRoleNames == {"Super Admin", "Tenant Admin"}

\* C1: every tenant whose admin_user_id is set references a principal whose
\* tenant_level is tenant_admin and whose client_id is that tenant's id.
C1_ActiveTenantInvariant ==
  \A t \in DOMAIN clients :
    clients[t].admin_user_id # NULL =>
      /\ clients[t].admin_user_id \in DOMAIN profiles
      /\ profiles[clients[t].admin_user_id].tenant_level = "tenant_admin"
      /\ profiles[clients[t].admin_user_id].client_id = t

\* C2: can_access_client(P, T) holds exactly when P is a super admin or P's
\* profile client_id is T; the edge function's wrapper never grants more; a
\* principal that is not a super admin can access at most the one tenant
\* named by its own client_id.
C2_TenantIsolation ==
  \A P \in DOMAIN auth_users :
    /\ \A T \in DOMAIN clients :
         LET member == HoldsRole(P, "Super Admin") \/ profiles[P].client_id = T IN
           /\ can_access_client(P, T) <=> member
           /\ canAccessClient(P, T, FALSE) <=> member
           /\ canAccessClient(P, T, TRUE) => member
    /\ ~HoldsRole(P, "Super Admin") =>
         /\ {T \in DOMAIN clients : can_access_client(P, T)} \subseteq {profiles[P].client_id}
         /\ Cardinality({T \in DOMAIN clients : can_access_client(P, T)}) <= 1

\* C2 witness: a principal that is not a super admin reaches its own tenant
\* and is refused another existing tenant.
C2_Witness ==
  \E P \in DOMAIN auth_users : \E T1, T2 \in DOMAIN clients :
    /\ T1 # T2
    /\ ~is_super_admin(P)
    /\ can_access_client(P, T1)
    /\ ~can_access_client(P, T2)

\* C3: a create-user request that names "Super Admin" or "Tenant Admin" and
\* comes from a caller that is not a super admin is rejected as Forbidden: it
\* never gets past authorization, so it creates no user and assigns no role.
C3_EscalationBlocked ==
  \A i \in Invocations :
    ( /\ hs[i].pc \notin {"idle", "isSuperAdmin", "canAccessClient"}
      /\ hs[i].caller # NULL
      /\ hs[i].ret \notin {68, 72}
      /\ ~hs[i].callerIsSuper
      /\ ~is_super_admin(hs[i].caller)
      /\ hs[i].role_names \cap PrivilegedRoleNames # {} )
    => (hs[i].pc = "returned" /\ hs[i].status = 403)

C5_NonSuperAdminNoEffects ==
  [][ \A f \in Forms :
        /\ ( /\ form[f].pc = "insert"
             /\ form'[f].pc # "insert"
             /\ ~is_super_admin(form[f].user) )
           => /\ form'[f].pc = "form"
              /\ form'[f].step = "form"
              /\ form'[f].toast.title = "Error"
              /\ form'[f].tenantId = NULL
              /\ UNCHANGED <<store, hs>>
        /\ ( /\ form[f].pc = "form"
             /\ form'[f] # form[f]
             /\ form'[f].user = NULL )
           => /\ form'[f].pc = "form"
              /\ form'[f].toast.title = "Error"
              /\ UNCHANGED store
    ]_vars

\* C5 witness: a run submitted by a principal that is not a super admin has
\* been refused by the insert policy.
C5_Witness ==
  \E f \in Forms :
    /\ form[f].pc = "form"
    /\ form[f].user # NULL
    /\ ~is_super_admin(form[f].user)
    /\ form[f].toast.description = "new row violates row-level security policy"
    /\ form[f].tenantId = NULL

Conflict(f) ==
  /\ form[f].pc = "form"
  /\ form[f].toast.description = "duplicate key value violates unique constraint"

PastInsert(f) ==
  /\ form[f].user # NULL
  /\ form[f].pc # "insert"

\* C6: no two tenants share a name; of two runs for the same tenant name at
\* most one creates the tenant; the run that meets the conflict creates no
\* tenant and sends no request to the edge function; when the name was free
\* and neither insert was refused for another reason, exactly one run created
\* the tenant and the other one got the conflict error.
C6_TenantNameUnique ==
  /\ \A t1, t2 \in DOMAIN clients : clients[t1].name = clients[t2].name => t1 = t2
  /\ \A f \in Forms :
       Conflict(f) => form[f].tenantId = NULL /\ hs[f].pc = "idle"
  /\ \A f, g \in Forms :
       ( /\ f # g
         /\ PastInsert(f)
         /\ PastInsert(g)
         /\ form[f].data.tenantName = form[g].data.tenantName )
       => /\ ~(form[f].tenantId # NULL /\ form[g].tenantId # NULL)
          /\ ( /\ \A t \in DOMAIN clients :
                    clients[t].name = form[f].data.tenantName
                      => t \in {form[f].tenantId, form[g].tenantId}
               /\ \A x \in {f, g} :
                    is_super_admin(form[x].user) /\ (form[x].tenantId # NULL \/ Conflict(x)) )
             => \E w \in {f, g} : \E l \in {f, g} \ {w} :
                  form[w].tenantId # NULL /\ Conflict(l)

\* C6 witness: while one run is still between its insert and its request to
\* the edge function, the other run for the same name has got the conflict.
C6_Witness ==
  \E f, g \in Forms :
    /\ f # g
    /\ form[f].data.tenantName = form[g].data.tenantName
    /\ form[f].pc = "invoke"
    /\ form[f].tenantId # NULL
    /\ Conflict(g)

\* ---- outcome of a run of onSubmit, read from the form and its invocation

RunFailed(f) ==
  /\ form[f].pc = "form"
  /\ form[f].user # NULL
  /\ form[f].toast.title = "Error"

\* the step of the workflow at which a failed run stopped
\* (4 identity, 5 profile, 6 role assignment, 7 admin_user_id), 0 before step 4
StepReached(f) ==
  IF form[f].tenantId = NULL \/ hs[f].pc # "returned" THEN 0
  ELSE IF hs[f].ret = 97 THEN 4
  ELSE IF hs[f].ret = 113 THEN 5
  ELSE IF hs[f].ret \in {122, 127} THEN 6
  ELSE IF hs[f].status = 200 THEN 7
  ELSE 0

AuditRecordsFor(t) ==
  {k \in DOMAIN tenant_audit_log :
     tenant_audit_log[k].tenant_id = t /\ tenant_audit_log[k].action = "tenant_created"}

\* C7: a run re-invoked by a super admin with the admin email of a principal
\* whose profile write failed ends, unless a collaborator call fails again,
\* with that principal as the tenant's admin, its profile, role and audit
\* record written and still one identity record for the email.
C7_ResumeCompletes ==
  \A f \in Forms :
    ( /\ form[f].resume
      /\ form[f].pc \in {"form", "credentials"}
      /\ form[f].toast.description # "Failed to create tenant"
      /\ ~(hs[f].pc = "returned" /\ hs[f].ret \in {113, 122, 127}) )
    => /\ form[f].pc = "credentials"
       /\ \E u \in DOMAIN auth_users :
            /\ auth_users[u].email = form[f].data.adminEmail
            /\ clients[form[f].tenantId].admin_user_id = u
            /\ profiles[u].client_id = form[f].tenantId
            /\ HoldsRole(u, "Tenant Admin")
       /\ Cardinality({u \in DOMAIN auth_users :
                         auth_users[u].email = form[f].data.adminEmail}) = 1

\* C8: when the identity creation of a run fails, the tenant of the run stays
\* (admin_user_id null) and the failure report carries the tenant's id: the
\* reports of two such runs for different tenants differ.
C8_IdentityFailureNamesTenant ==
  \A f \in Forms :
    (RunFailed(f) /\ StepReached(f) = 4)
    => /\ form[f].tenantId \in DOMAIN clients
       /\ clients[form[f].tenantId].admin_user_id = NULL
       /\ \A g \in Forms :
            (RunFailed(g) /\ StepReached(g) = 4 /\ form[g].tenantId # form[f].tenantId)
            => form[g].toast # form[f].toast

\* C9: a run that fails at a step >= 4 returns a failure result naming the
\* step reached and the tenant id: runs that stopped at different steps or
\* for different tenants get different results.
C9_FailureNamesStep ==
  \A f, g \in Forms :
    ( /\ RunFailed(f) /\ StepReached(f) >= 4
      /\ RunFailed(g) /\ StepReached(g) >= 4
      /\ <<StepReached(f), form[f].tenantId>> # <<StepReached(g), form[g].tenantId>> )
    => form[f].toast # form[g].toast

\* C10: when a run ends with the credentials shown, there is one tenant of
\* the requested name and type, one principal with tenant_level tenant_admin
\* and client_id that tenant, its assignment to "Tenant Admin", and one
\* tenant_created audit record for the tenant.
C10_SuccessPostcondition ==
  \A f \in Forms :
    form[f].pc = "credentials" =>
      LET t == form[f].tenantId
          u == form[f].fnUserId
      IN  /\ t \in DOMAIN clients
          /\ clients[t].name = form[f].data.tenantName
          /\ clients[t].tenant_type = form[f].data.tenantType
          /\ u \in DOMAIN auth_users
          /\ auth_users[u].email = form[f].data.adminEmail
          /\ profiles[u].tenant_level = "tenant_admin"
          /\ profiles[u].client_id = t
          /\ Cardinality({x \in DOMAIN auth_users :
                            auth_users[x].email = form[f].data.adminEmail}) = 1
          /\ HoldsRole(u, "Tenant Admin")
          /\ Cardinality(AuditRecordsFor(t)) = 1

\* C11: for a caller holding "Super Admin", assigning a role the principal
\* already holds leaves the role assignments as they are and is reported as
\* a success, and removing a role the principal does not hold leaves them as
\* they are and is reported as a success (a failed database call aside).
C11_RoleAssignmentIdempotent ==
  [][ \A caller \in DOMAIN auth_users, userId \in DOMAIN auth_users, roleId \in RoleIds :
        LET row == [user_id |-> userId, role_id |-> roleId] IN
          /\ ( /\ is_super_admin(caller)
               /\ row \in user_roles
               /\ assignRole(caller, userId, roleId)
               /\ toast'.description # "Failed to assign role" )
             => /\ user_roles' = user_roles
                /\ toast'.title = "Success"
          /\ ( /\ is_super_admin(caller)
               /\ row \notin user_roles
               /\ removeRole(caller, userId, roleId)
               /\ toast'.description # "Failed to remove role" )
             => /\ user_roles' = user_roles
                /\ toast'.title = "Success"
    ]_vars

\* C12: when the append of the tenant_created audit record fails, the run
\* of create-tenant-with-admin is reported to the caller as failed: it ends
\* with an error and does not show the success screen.
C12_AuditFailureReported ==
  [][ \A f \in Forms :
        ( /\ form[f].pc = "audit"
          /\ form'[f].pc # "audit"
          /\ tenant_audit_log' = tenant_audit_log )
        => /\ form'[f].toast.title = "Error"
           /\ form'[f].step = "form"
           /\ form'[f].createdCredentials = NoCredentials
    ]_vars

ValidationReturns == {68, 72}
UnauthorizedReturns == {76}
ForbiddenReturns == {82}

\* C13: a create-user request that ends as a validation error (invalid JSON
\* body, missing email), as Unauthorized or as Forbidden has changed no
\* table on its way: every step of the request up to that response leaves
\* the identity directory, the profiles, the role assignments, the tenants
\* and the audit log as they were, the request has created no user, and
\* after the response the request takes no further step.
C13_RejectionNoEffects ==
  [][ \A i \in Invocations :
        /\ ( /\ hs'[i] # hs[i]
             /\ hs'[i].pc = "returned"
             /\ hs'[i].ret \in ValidationReturns \cup UnauthorizedReturns \cup ForbiddenReturns )
           => /\ UNCHANGED store
              /\ hs'[i].newUserId = NULL
              /\ hs'[i].assignments = {}
              /\ hs'[i].status \in {400, 401, 403}
        /\ ( /\ hs[i].pc \in {"isSuperAdmin", "canAccessClient"}
             /\ hs'[i] # hs[i] )
           => UNCHANGED store
        /\ ( /\ hs[i].pc = "returned"
             /\ hs'[i] # hs[i] )
           => /\ hs'[i] = HIdle
              /\ UNCHANGED store
    ]_vars

\* C13 witness: a request for a new email has been refused as Forbidden and
\* no identity with that email exists.
C13_Witness ==
  \E i \in Invocations :
    /\ hs[i].pc = "returned"
    /\ hs[i].ret \in ForbiddenReturns
    /\ hs[i].status = 403
    /\ hs[i].email = "new@x"
    /\ ~EmailTaken("new@x")

\* C14: a create-user request that ends successfully has given the new
\* principal a role assignment for every requested role name; a requested
\* name that is no role of the catalog never ends in a success.
C14_RoleNamesResolved ==
  [][ \A i \in Invocations :
        ( /\ hs[i].pc # "returned"
          /\ hs'[i].pc = "returned"
          /\ hs'[i].status = 200 )
        => \A n \in hs'[i].role_names :
             \E r \in RoleIds :
               /\ roles[r].name = n
               /\ [user_id |-> hs'[i].newUserId, role_id |-> r] \in user_roles'
    ]_vars

\* C15: whatever the client-side role state, a principal that is not a
\* super admin and lists users receives only its own profile and profiles of
\* its own tenant, role assignments of itself only, and no tenant other than
\* its own: never a row of a principal of another tenant.
C15_ListingIsolation ==
  \A P \in DOMAIN auth_users :
    ~is_super_admin(P) => \A rbac \in RBACStates :
      LET A == profiles[P].client_id
          got == fetchData(P, rbac)
      IN  /\ \A u \in got.users :
               /\ u.profile.user_id = P \/ (A # NULL /\ u.profile.client_id = A)
               /\ u.roles # {} => u.profile.user_id = P
          /\ \A ur \in got.userRolesData : ur.user_id = P
          /\ \A c \in got.clients : c.id = A

\* C15 witness: a member of tenant A lists users while another tenant B has
\* a member holding a role; the listing returns A's member and not B's.
C15_Witness ==
  \E P, Q \in DOMAIN auth_users :
    LET got == fetchData(P, [isSuperAdmin |-> FALSE, isTenantAdmin |-> FALSE,
                             userClientId |-> 1])
    IN  /\ ~is_super_admin(P)
        /\ profiles[P].client_id # NULL
        /\ profiles[Q].client_id # NULL
        /\ profiles[Q].client_id # profiles[P].client_id
        /\ HoldsRole(Q, "Tenant Admin")
        /\ \E u \in got.users : u.profile.user_id = P
        /\ \A u \in got.users : u.profile.user_id # Q

Upper == {chars[k] : k \in 1..26}
Lower == {chars[k] : k \in 27..52}
Digits == {chars[k] : k \in 53..62}
Symbols == {chars[k] : k \in 63..70}

CharClasses(password) ==
  {cls \in {Upper, Lower, Digits, Symbols} : \E k \in 1..Len(password) : password[k] \in cls}

\* the minimum policy: length >= 12 and characters of at least two classes
MeetsPolicy(password) ==
  /\ Len(password) >= 12
  /\ Cardinality(CharClasses(password)) >= 2

\* C16: every generated password, whatever the random source yields, has at
\* least 12 characters and characters of more than one class.
C16_GeneratedMeetsPolicy ==
  gen.by # "none" => MeetsPolicy(gen.password)

\* the characters of the passwords the workflow is run with
Characters(password) ==
  CASE password = "password" -> << "p", "a", "s", "s", "w", "o", "r", "d" >>
    [] password = "Xa7!Xa7!Xa7!" ->
         << "X", "a", "7", "!", "X", "a", "7", "!", "X", "a", "7", "!" >>
    [] password = "" -> << >>

\* C17: the identity of a request that carries a password is created only
\* if that password meets the minimum policy (create-user, and through it
\* create-tenant-with-admin with a custom password).
C17_WeakPasswordRejected ==
  [][ \A i \in Invocations :
        ( /\ hs[i].pc = "createUser"
          /\ hs'[i].pc = "profile"
          /\ hs[i].password # "" )
        => MeetsPolicy(Characters(hs[i].password))
    ]_vars

KnownPasswords == CustomPasswords \cup GeneratedPasswords

\* C18: the admin password is on the screen only in the credentials step of
\* a run that succeeded; once the form is back in its form step the
\* credentials are cleared; no toast and no row of the tenants, profiles,
\* identities or audit log holds a password.
C18_PasswordShownOnce ==
  /\ \A f \in Forms :
       /\ form[f].createdCredentials.adminPassword # ""
            => /\ form[f].step = "credentials"
               /\ form[f].pc = "credentials"
               /\ form[f].toast.title = "Success"
               /\ form[f].createdCredentials.adminPassword \in KnownPasswords
       /\ form[f].step = "form" => form[f].createdCredentials = NoCredentials
       /\ form[f].pc \in {"form", "credentials"} => form[f].adminPassword = ""
       /\ form[f].toast.title \notin KnownPasswords
       /\ form[f].toast.description \notin KnownPasswords
  /\ \A t \in DOMAIN clients :
       /\ clients[t].name \notin KnownPasswords
       /\ "password" \notin DOMAIN clients[t]
  /\ \A u \in DOMAIN profiles :
       /\ profiles[u].email \notin KnownPasswords
       /\ "password" \notin DOMAIN profiles[u]
  /\ \A u \in DOMAIN auth_users : auth_users[u].email \notin KnownPasswords
  /\ \A k \in DOMAIN tenant_audit_log :
       /\ tenant_audit_log[k].action \notin KnownPasswords
       /\ \A d \in DOMAIN tenant_audit_log[k].details :
            tenant_audit_log[k].details[d] \notin KnownPasswords

\* C18 witness: a run that showed its credentials has been finished and the
\* form is back in its form step.
C18_Witness ==
  \E f \in Forms :
    /\ form[f].pc = "form"
    /\ form[f].step = "form"
    /\ form[f].toast.title = "Success"
    /\ form[f].fnUserId # NULL
    /\ form[f].createdCredentials = NoCredentials

\* C19: an audit record, once written, is there and unchanged in every
\* later state, also after the tenant it refers to has been deleted.
C19_AuditAppendOnly ==
  [][ \A k \in DOMAIN tenant_audit_log :
        /\ k \in DOMAIN tenant_audit_log'
        /\ tenant_audit_log'[k] = tenant_audit_log[k]
    ]_vars

\* an audit record of tenant t (NULL: a platform-level record)
AuditRow(t) ==
  [tenant_id |-> t, performed_by |-> 1, action |-> "tenant_created",
   details |-> [tenant_name |-> "", admin_email |-> ""]]

\* C20: a principal that is not a super admin can read an audit record
\* exactly when the record's tenant_id is its own client_id (never a record
\* without a tenant); a super admin can read every record, also one without
\* a tenant.
C20_AuditReadAccess ==
  \A P \in DOMAIN auth_users :
    LET super == is_super_admin(P) IN
      \A t \in TenantIds \cup {NULL} :
        LET readable == audit_select(P, AuditRow(t)) IN
          IF super
          THEN readable
          ELSE /\ readable <=> (t # NULL /\ profiles[P].client_id = t)
               /\ readable <=> canAccessClient(P, t, FALSE)

\* C20 witness: the log holds records of two tenants; a member of one of
\* them can read that tenant's record and not the other's.
C20_Witness ==
  \E P \in DOMAIN auth_users : \E j, k \in DOMAIN tenant_audit_log :
    /\ ~is_super_admin(P)
    /\ tenant_audit_log[j].tenant_id # tenant_audit_log[k].tenant_id
    /\ audit_select(P, tenant_audit_log[j])
    /\ ~audit_select(P, tenant_audit_log[k])


\* C21: the roles offered for assignment are the whole catalog for a super
\* admin, and for a principal that is not a super admin exactly the catalog
\* without "Super Admin" and "Tenant Admin", on the create-user form and on
\* the role picker of the edit-user form.
C21_AssignableRoles ==
  LET nonAdmin == {r \in RoleIds : roles[r].name \notin PrivilegedRoleNames} IN
    /\ availableRoles(TRUE) = RoleIds
    /\ availableRoles(FALSE) = nonAdmin
    /\ \A P \in DOMAIN auth_users :
         ~is_super_admin(P) =>
           \A u \in DOMAIN profiles :
             profiles_select(P, profiles[u]) =>
               LET shown == {ur.role_id : ur \in {x \in user_roles :
                               x.user_id = u /\ user_roles_select(P, x)}}
               IN  UserFormRoleOptions(shown) \subseteq nonAdmin


\* C22: is_super_admin(P) holds exactly when P has a role assignment to
\* "Super Admin"; is_tenant_admin(P, T) holds exactly when P's profile has
\* client_id = T and P has a role assignment to "Tenant Admin"; neither
\* reads tenant_level: two principals with the same role assignments and the
\* same client_id get the same answers whatever their tenant_level.
C22_RolePredicates ==
  /\ \A P \in DOMAIN auth_users :
       /\ is_super_admin(P) <=> HoldsRole(P, "Super Admin")
       /\ \A T \in TenantIds :
            is_tenant_admin(P, T) <=>
              (profiles[P].client_id = T /\ HoldsRole(P, "Tenant Admin"))
  /\ \A P, Q \in DOMAIN auth_users :
       ( /\ profiles[P].tenant_level # profiles[Q].tenant_level
         /\ profiles[P].client_id = profiles[Q].client_id
         /\ \A r \in RoleIds : [user_id |-> P, role_id |-> r] \in user_roles
                               <=> [user_id |-> Q, role_id |-> r] \in user_roles )
       => /\ is_super_admin(P) <=> is_super_admin(Q)
          /\ \A T \in TenantIds : is_tenant_admin(P, T) <=> is_tenant_admin(Q, T)

\* C22 witness: tenant_level and the role assignments disagree: a principal
\* with tenant_level = tenant_admin that is no tenant admin of its tenant, and
\* a principal with tenant_level = super_admin that is no super admin.
C22_Witness ==
  /\ \E P \in DOMAIN auth_users :
       /\ profiles[P].tenant_level = "tenant_admin"
       /\ profiles[P].client_id # NULL
       /\ ~is_tenant_admin(P, profiles[P].client_id)
  /\ \E Q \in DOMAIN auth_users :
       /\ profiles[Q].tenant_level = "super_admin"
       /\ ~is_super_admin(Q)


\* C23: every authorization decision is taken against the store as it is at
\* the moment of the decision: the handler lets a request pass only if
\* is_super_admin or can_access_client holds for the caller in the current
\* store, a request it lets pass as super admin skips the tenant test only
\* then, and the workflow's writes to clients and tenant_audit_log take effect
\* only while the submitting user is a super admin in the current store; a
\* principal whose "Super Admin" role was removed is listed only the profiles
\* of its own tenant, whatever the page still believes about it.
C23_AuthorizationFresh ==
  [][ /\ \A i \in Invocations :
           /\ ( hs[i].pc = "isSuperAdmin" /\ hs'[i].pc = "createUser" )
              => is_super_admin(hs[i].caller)
           /\ ( hs[i].pc = "isSuperAdmin" /\ hs'[i].pc = "canAccessClient" )
              => ~hs'[i].callerIsSuper
           /\ ( hs[i].pc = "canAccessClient" /\ hs'[i].pc = "createUser" )
              => can_access_client(hs[i].caller, hs[i].client_id)
           /\ ( /\ hs[i].pc = "canAccessClient"
                /\ hs'[i].pc = "returned"
                /\ can_access_client(hs[i].caller, hs[i].client_id) )
              => hs'[i].status = 403
      /\ \A f \in Forms :
           /\ ( form[f].pc = "insert" /\ form'[f].pc = "invoke" )
              => is_super_admin(form[f].user)
           /\ ( form[f].pc = "update" /\ clients' # clients )
              => is_super_admin(form[f].user)
           /\ ( form[f].pc = "audit" /\ tenant_audit_log' # tenant_audit_log )
              => is_super_admin(form[f].user)
      /\ \A P \in DOMAIN auth_users :
           ( profiles[P].tenant_level = "super_admin" /\ ~is_super_admin(P) )
           => \A rbac \in RBACStates :
                \A u \in fetchData(P, rbac).users :
                  \/ u.profile.user_id = P
                  \/ /\ u.profile.client_id # NULL
                     /\ u.profile.client_id = profiles[P].client_id
    ]_vars

\* C23 witness: user 1 lost its "Super Admin" role and a request of user 1
\* for an existing tenant was then refused with 403.
C23_Witness ==
  \E i \in Invocations :
    /\ hs[i].pc = "returned"
    /\ hs[i].status = 403
    /\ hs[i].caller = 1
    /\ hs[i].client_id \in DOMAIN clients
    /\ ~is_super_admin(1)
    /\ profiles[1].tenant_level = "super_admin"


\* C24: invocations racing on one email create exactly one identity record,
\* and the invocation that finds the email already registered by the other
\* one at identity creation goes on with the profile step for the existing principal (the
\* resume path) instead of returning an error.
C24_RaceResumes ==
  [][ /\ \A a, b \in DOMAIN auth_users' :
           auth_users'[a].email = auth_users'[b].email => a = b
      /\ \A i \in Invocations :
           ( /\ hs[i].pc = "createUser"
             /\ hs'[i].pc # "createUser"
             /\ \E j \in Invocations \ {i} :
                  /\ hs[j].newUserId # NULL
                  /\ auth_users[hs[j].newUserId].email = hs[i].email )
           => /\ hs'[i].pc = "profile"
              /\ hs'[i].newUserId \in DOMAIN auth_users
              /\ auth_users[hs'[i].newUserId].email = hs[i].email
    ]_vars


\* C25: in every reachable state a tenant whose stored status is 'active'
\* (settings.status) has an admin: admin_user_id is not null.
C25_ActiveHasAdmin ==
  \A t \in DOMAIN clients :
    clients[t].status = "active" => clients[t].admin_user_id # NULL


\* C26: a create-user request without a target tenant passes authorization
\* only as a super admin: when the caller is not a super admin the handler
\* returns 403 at the tenant test, with the identity directory and the
\* profiles untouched, and an identity is created for a request without
\* client_id only after the super-admin test succeeded.
C26_NullTargetSuperOnly ==
  [][ \A i \in Invocations :
        hs[i].client_id = NULL =>
          /\ ( hs[i].pc = "isSuperAdmin" /\ hs'[i].pc = "createUser" )
             => is_super_admin(hs[i].caller)
          /\ ( hs[i].pc = "isSuperAdmin" /\ ~is_super_admin(hs[i].caller) )
             => hs'[i].pc \in {"isSuperAdmin", "canAccessClient"}
          /\ ( hs[i].pc = "canAccessClient" /\ hs'[i].pc # "canAccessClient" )
             => /\ hs'[i].pc = "returned"
                /\ hs'[i].status = 403
                /\ hs'[i].ret = 82
                /\ hs'[i].newUserId = NULL
                /\ auth_users' = auth_users
                /\ profiles' = profiles
          /\ ( hs[i].pc = "createUser" /\ hs'[i].pc = "profile" )
             => hs[i].callerIsSuper
    ]_vars

\* C26 witness: a request without client_id from a caller that is not a
\* super admin was answered 403 and no identity record has been created.
C26_Witness ==
  \E i \in Invocations :
    /\ hs[i].pc = "returned"
    /\ hs[i].status = 403
    /\ hs[i].caller # NULL
    /\ hs[i].client_id = NULL
    /\ hs[i].email # ""
    /\ ~is_super_admin(hs[i].caller)
    /\ \A u \in DOMAIN auth_users : auth_users[u].email # hs[i].email


\* C27: a tenant's admin_user_id is written only by step 4 of the workflow,
\* with the id of a principal that exists in the identity directory and that
\* the workflow's handler has answered 200 for; that handler answers 200 only
\* from the step that inserts the "Tenant Admin" assignment of the principal,
\* which it reaches only after the step that wrote the profile with client_id
\* = the tenant's id and tenant_level = tenant_admin, which follows the
\* creation of the identity.
C27_ActivationOrder ==
  [][ /\ \A t \in DOMAIN clients :
           clients'[t].admin_user_id # clients[t].admin_user_id
           => \E f \in Forms :
                /\ form[f].pc = "update"
                /\ form[f].tenantId = t
                /\ clients'[t].admin_user_id # NULL
                /\ clients'[t].admin_user_id \in DOMAIN auth_users
                /\ clients'[t].admin_user_id = hs[f].newUserId
                /\ hs[f].pc = "returned"
                /\ hs[f].status = 200
      /\ \A f \in Forms :
           /\ ( hs[f].pc # "returned" /\ hs'[f].pc = "returned" /\ hs'[f].status = 200 )
              => /\ hs[f].pc = "assign"
                 /\ \E r \in RoleIds :
                      /\ roles[r].name = "Tenant Admin"
                      /\ [user_id |-> hs[f].newUserId, role_id |-> r] \in user_roles'
           /\ ( hs[f].pc # "assign" /\ hs'[f].pc = "assign" )
              => hs[f].pc = "rolesSelect"
           /\ ( hs[f].pc # "rolesSelect" /\ hs'[f].pc = "rolesSelect" )
              => /\ hs[f].pc = "profile"
                 /\ hs[f].newUserId \in DOMAIN auth_users
                 /\ profiles'[hs[f].newUserId].client_id = form[f].tenantId
                 /\ profiles'[hs[f].newUserId].tenant_level = "tenant_admin"
           /\ ( hs[f].pc # "profile" /\ hs'[f].pc = "profile" )
              => /\ hs[f].pc = "createUser"
                 /\ hs'[f].newUserId \in DOMAIN auth_users' \ DOMAIN auth_users
    ]_vars

\* C27 witness: step 4 of a run has written the id of the principal its
\* handler created into the run's tenant.
C27_Witness ==
  \E f \in Forms :
    /\ form[f].pc = "audit"
    /\ form[f].tenantId \in DOMAIN clients
    /\ clients[form[f].tenantId].admin_user_id # NULL
    /\ clients[form[f].tenantId].admin_user_id = hs[f].newUserId


\* C28: whenever the log holds a tenant_created record for a tenant, that
\* tenant's admin_user_id is set; a run that failed at an earlier step has
\* appended no record.
C28_AuditOnlyWhenActive ==
  /\ \A k \in DOMAIN tenant_audit_log :
       tenant_audit_log[k].action = "tenant_created" =>
         /\ tenant_audit_log[k].tenant_id \in DOMAIN clients
         /\ clients[tenant_audit_log[k].tenant_id].admin_user_id # NULL
  /\ \A f \in Forms :
       ( form[f].pc = "form" /\ form[f].toast.title = "Error" /\ form[f].tenantId # NULL )
       => AuditRecordsFor(form[f].tenantId) = {}


\* C29: in every reachable state every principal whose profile has client_id
\* null has tenant_level = super_admin.
C29_NullClientOnlySuperAdmin ==
  \A p \in DOMAIN profiles :
    profiles[p].client_id = NULL => profiles[p].tenant_level = "super_admin"


\* C30: for every caller and every target client id, null included, in every
\* reachable store, the edge function's isSuperAdmin and canAccessClient
\* (their RPCs succeeding) return what the SQL functions is_super_admin and
\* can_access_client return, and the handler's decision, isSuperAdmin or
\* canAccessClient, equals is_super_admin or can_access_client.
C30_PredicatesAgree ==
  \A P \in DOMAIN auth_users :
    /\ isSuperAdmin(P, FALSE) <=> is_super_admin(P)
    /\ \A T \in TenantIds \cup {NULL} :
         /\ canAccessClient(P, T, FALSE) <=> can_access_client(P, T)
         /\ (isSuperAdmin(P, FALSE) \/ canAccessClient(P, T, FALSE))
            <=> (is_super_admin(P) \/ can_access_client(P, T))


HasPermission(userId, permission) ==
  \E ur \in user_roles : ur.user_id = userId /\ permission \in roles[ur.role_id].permissions

\* C31: a role assignment is added or removed only on behalf of a principal
\* that holds the manage_users or the manage_roles permission: a create-user
\* request that names roles of the catalog and whose caller holds neither
\* permission when it is authorized is refused there and inserts no role
\* assignment, and a change of user_roles from UserManagement needs a
\* principal with one of the permissions to exist.
C31_RoleChangesNeedPermission ==
  [][ /\ \A i \in Invocations :
           ( /\ hs[i].pc = "canAccessClient"
             /\ hs'[i].pc # "canAccessClient"
             /\ \E r \in RoleIds : roles[r].name \in hs[i].role_names
             /\ ~HasPermission(hs[i].caller, "manage_users")
             /\ ~HasPermission(hs[i].caller, "manage_roles") )
           => /\ hs'[i].pc = "returned"
              /\ hs'[i].status = 403
      /\ ( hs' = hs /\ user_roles' # user_roles )
         => \E P \in DOMAIN auth_users :
              HasPermission(P, "manage_users") \/ HasPermission(P, "manage_roles")
    ]_vars


\* C32: when the profile write, the role lookup or the role insert of
\* create-user fails after the identity was created, the identity and its
\* profile row are kept and the failure response carries the id of the new
\* principal.
C32_PartialFailureCarriesId ==
  \A i \in Invocations :
    ( hs[i].pc = "returned" /\ hs[i].ret \in {113, 122, 127} )
    => /\ hs[i].newUserId \in DOMAIN auth_users
       /\ hs[i].newUserId \in DOMAIN profiles
       /\ hs[i].status # 200
       /\ hs[i].user_id = hs[i].newUserId


\* C33: every submitted run of the workflow ends: a form that is loading
\* eventually shows the credentials or an error, and whenever onSubmit is
\* not running the loading flag is false.
C33_WorkflowTerminates ==
  /\ \A f \in Forms :
       form[f].loading ~>
         /\ ~form[f].loading
         /\ \/ form[f].pc = "credentials" /\ form[f].step = "credentials"
            \/ form[f].pc = "form" /\ form[f].toast.title = "Error"
  /\ [](\A f \in Forms : form[f].pc \in {"form", "credentials"} => ~form[f].loading)

\* C33 witness: one run has ended with the credentials and another with an
\* error after its tenant was inserted; neither form is loading.
C33_Witness ==
  \E f, g \in Forms :
    /\ form[f].pc = "credentials"
    /\ ~form[f].loading
    /\ form[g].pc = "form"
    /\ form[g].tenantId # NULL
    /\ form[g].toast.title = "Error"
    /\ ~form[g].loading


\* C34: in every reachable state each profile row belongs to an existing
\* identity record with the same id and email, and a handler past identity
\* creation holds the id of an identity record with the requested email,
\* for which alone it has prepared role assignments.
C34_ProfileHasIdentity ==
  /\ \A p \in DOMAIN profiles :
       /\ profiles[p].user_id \in DOMAIN auth_users
       /\ profiles[p].user_id = p
       /\ auth_users[p].email = profiles[p].email
  /\ \A i \in Invocations :
       /\ hs[i].pc \in {"profile", "rolesSelect", "assign"} => hs[i].newUserId # NULL
       /\ hs[i].newUserId # NULL =>
            /\ hs[i].newUserId \in DOMAIN auth_users
            /\ auth_users[hs[i].newUserId].email = hs[i].email
            /\ \A a \in hs[i].assignments : a.user_id = hs[i].newUserId

\* C34 witness: a handler has created an identity, written its profile and
\* inserted its role assignments.
C34_Witness ==
  \E i \in Invocations :
    /\ hs[i].pc = "returned"
    /\ hs[i].status = 200
    /\ hs[i].assignments # {}
    /\ hs[i].assignments \subseteq user_roles
    /\ hs[i].newUserId \in DOMAIN profiles
    /\ profiles[hs[i].newUserId].client_id = hs[i].client_id


\* C35: when the RPC fails, isSuperAdmin and canAccessClient return false
\* for every caller and target; so the handler lets a request pass only on a
\* positive answer of the database, and a request of a caller that is not a
\* super admin that does not get one is returned 403 with the store
\* unchanged: no user is created.
C35_WrappersFailClosed ==
  [][ /\ \A P \in DOMAIN auth_users :
           /\ ~isSuperAdmin(P, TRUE)
           /\ \A T \in TenantIds \cup {NULL} : ~canAccessClient(P, T, TRUE)
      /\ \A i \in Invocations :
           /\ ( hs[i].pc = "isSuperAdmin" /\ hs'[i].pc # "isSuperAdmin" )
              => /\ hs'[i].callerIsSuper => isSuperAdmin(hs[i].caller, FALSE)
                 /\ hs'[i].pc = IF hs'[i].callerIsSuper THEN "createUser"
                                ELSE "canAccessClient"
           /\ ( hs[i].pc = "canAccessClient" /\ hs'[i].pc # "canAccessClient" )
              => IF hs'[i].pc = "createUser"
                 THEN canAccessClient(hs[i].caller, hs[i].client_id, FALSE)
                 ELSE /\ hs'[i].pc = "returned"
                      /\ hs'[i].status = 403
                      /\ hs'[i].newUserId = NULL
                      /\ store' = store
    ]_vars

\* C35 witness: a request of a tenant member for its own tenant was
\* returned 403 although can_access_client holds: its lookup failed.
C35_Witness ==
  \E i \in Invocations :
    /\ hs[i].pc = "returned"
    /\ hs[i].status = 403
    /\ hs[i].ret = 82
    /\ ~is_super_admin(hs[i].caller)
    /\ can_access_client(hs[i].caller, hs[i].client_id)
    /\ \A u \in DOMAIN auth_users : auth_users[u].email # hs[i].email


\* C36: whenever a form's step is 'credentials', createdCredentials is set
\* and the run's tenant exists, its admin principal exists and the tenant's
\* admin_user_id is that principal; a form whose run has failed is in step
\* 'form' with createdCredentials null.
C36_CredentialsOnlyAfterSuccess ==
  \A f \in Forms :
    /\ form[f].step = "credentials" =>
         LET c == form[f].createdCredentials IN
           /\ c # NoCredentials
           /\ c.tenantId \in DOMAIN clients
           /\ c.adminUserId \in DOMAIN auth_users
           /\ clients[c.tenantId].admin_user_id = c.adminUserId
    /\ ( form[f].pc = "form" /\ form[f].toast.title = "Error" ) =>
         /\ form[f].step = "form"
         /\ form[f].createdCredentials = NoCredentials


HandlerSteps == {"isSuperAdmin", "canAccessClient", "createUser", "profile", "rolesSelect",
                 "assign"}

\* C37: a step of a create-user handler leaves the tenants and the audit log
\* unchanged, leaves the identity record, the profile and the role
\* assignments of every principal other than the one that handler created
\* unchanged, and removes no role assignment; this holds on every path, also
\* when the email is already registered.
C37_HandlerFrame ==
  [][ \A i \in Invocations :
        ( hs[i].pc \in HandlerSteps /\ hs'[i] # hs[i] )
        => /\ clients' = clients
           /\ tenant_audit_log' = tenant_audit_log
           /\ \A p \in DOMAIN auth_users :
                /\ p \in DOMAIN auth_users'
                /\ auth_users'[p] = auth_users[p]
                /\ p # hs'[i].newUserId => profiles'[p] = profiles[p]
           /\ user_roles \subseteq user_roles'
           /\ \A ur \in user_roles' \ user_roles : ur.user_id = hs[i].newUserId
           /\ hs'[i].newUserId # hs[i].newUserId
              => hs'[i].newUserId \notin DOMAIN auth_users
           /\ ( hs[i].pc = "createUser" /\ EmailTaken(hs[i].email) )
              => store' = store
    ]_vars

\* C37 witness: one handler has created a principal and completed, another
\* was returned the error of identity creation for the same email.
C37_Witness ==
  \E i, j \in Invocations :
    /\ i # j
    /\ hs[i].pc = "returned"
    /\ hs[i].status = 200
    /\ hs[i].assignments \subseteq user_roles
    /\ hs[j].pc = "returned"
    /\ hs[j].ret = 97
    /\ hs[j].email = hs[i].email


\* C38: the profile of a principal created for a caller that is not a super
\* admin has tenant_level = user, from the identity creation on and after
\* the profile write, whatever tenant_level the request carries.
C38_NonSuperCreatesOnlyUsers ==
  [][ \A i \in Invocations :
        ( /\ hs[i].pc \in {"createUser", "profile"}
          /\ hs'[i] # hs[i]
          /\ hs'[i].newUserId # NULL
          /\ ~hs[i].callerIsSuper
          /\ ~is_super_admin(hs[i].caller) )
        => profiles'[hs'[i].newUserId].tenant_level = "user"
    ]_vars

====
